---- MODULE Spec2Model ----
(***************************************************************************)
(* A model of the question-answering pipeline of the AI Shopify analytics  *)
(* service: intent classification, query templating, the remote fetch,     *)
(* result processing and response synthesis (app/ai_agent.py,              *)
(* app/intent_classifier.py, app/shopify_client.py).                       *)
(*                                                                         *)
(* A Python str that the code inspects character by character (the         *)
(* question, the keywords, the extracted entities) is a sequence of        *)
(* one-character strings.  Python values read from JSON are tagged         *)
(* records, so that None, numbers, strings, lists and dicts are distinct   *)
(* values and an operation Python rejects on them is a raised exception.   *)
(***************************************************************************)
EXTENDS Integers, Sequences, FiniteSets, TLC

(***************************************************************************)
(* Bounds of the model.                                                    *)
(***************************************************************************)
\* longest question, in words, built from the scoring vocabulary
MaxWords == 3
\* longest collection the remote store returns (besides the 25-record case)
MaxEdges == 12
\* most variants / line items of one product or order
MaxVariants == 6

(***************************************************************************)
(* Text: str.lower(), the classes \w, \d, \s and \b of Python's re.        *)
(***************************************************************************)
UpperLetters ==
  <<"A","B","C","D","E","F","G","H","I","J","K","L","M",
    "N","O","P","Q","R","S","T","U","V","W","X","Y","Z">>

LowerLetters ==
  <<"a","b","c","d","e","f","g","h","i","j","k","l","m",
    "n","o","p","q","r","s","t","u","v","w","x","y","z">>

Digits == {"0","1","2","3","4","5","6","7","8","9"}

Whitespace == {" ", "\t", "\n"}

Letters == {UpperLetters[i] : i \in 1..26} \cup {LowerLetters[i] : i \in 1..26}

WordChars == Letters \cup Digits \cup {"_"}

\* the class [A-Za-z0-9\s\-_] of the product patterns
NameChars == Letters \cup Digits \cup Whitespace \cup {"-", "_"}

LowerChar(c) ==
  IF \E i \in 1..26 : UpperLetters[i] = c
    THEN LowerLetters[CHOOSE i \in 1..26 : UpperLetters[i] = c]
    ELSE c

lower(s) == [i \in 1..Len(s) |-> LowerChar(s[i])]

\* s[i] is a \w character; positions outside s hold none
WordAt(s, i) == i >= 1 /\ i <= Len(s) /\ s[i] \in WordChars

\* \b holds between s[i-1] and s[i]
Boundary(s, i) == WordAt(s, i - 1) # WordAt(s, i)

\* the literal lit occurs in s at position i
LiteralAt(s, lit, i) ==
  /\ i >= 1
  /\ i + Len(lit) - 1 <= Len(s)
  /\ \A k \in 1..Len(lit) : s[i + k - 1] = lit[k]

\* the same under re.IGNORECASE (lit is given in lower case)
LiteralAtIgnoreCase(s, lit, i) ==
  /\ i >= 1
  /\ i + Len(lit) - 1 <= Len(s)
  /\ \A k \in 1..Len(lit) : LowerChar(s[i + k - 1]) = lit[k]

\* first position from i on that is not in class C (Len(s) + 1 if none):
\* where a greedy C* started at i stops
RunEnd(s, i, C) ==
  CHOOSE j \in i..(Len(s) + 1) :
    /\ \A k \in i..(j - 1) : s[k] \in C
    /\ (j = Len(s) + 1 \/ s[j] \notin C)

\* str.strip()
RECURSIVE LStrip(_)
LStrip(s) ==
  IF s # <<>> /\ Head(s) \in Whitespace THEN LStrip(Tail(s)) ELSE s

RECURSIVE RStrip(_)
RStrip(s) ==
  IF s # <<>> /\ s[Len(s)] \in Whitespace
    THEN RStrip(SubSeq(s, 1, Len(s) - 1))
    ELSE s

strip(s) == LStrip(RStrip(s))

Min(S) == CHOOSE x \in S : \A y \in S : x <= y

(***************************************************************************)
(* IntentType and the keyword table of IntentClassifier.__init__.  A dict  *)
(* iterates in insertion order, which IntentOrder records.                 *)
(***************************************************************************)
IntentOrder ==
  <<"inventory_analysis", "sales_analysis", "customer_analysis",
    "product_analysis", "reorder_suggestion", "trend_analysis">>

IntentType == {IntentOrder[i] : i \in 1..Len(IntentOrder)}

intent_keywords ==
  [inventory_analysis |-> <<
      <<"i","n","v","e","n","t","o","r","y">>,
      <<"s","t","o","c","k">>,
      <<"a","v","a","i","l","a","b","l","e">>,
      <<"q","u","a","n","t","i","t","y">>,
      <<"u","n","i","t","s">>,
      <<"o","u","t"," ","o","f"," ","s","t","o","c","k">>,
      <<"l","o","w"," ","s","t","o","c","k">>,
      <<"r","e","s","t","o","c","k">>,
      <<"r","e","o","r","d","e","r">>,
      <<"s","u","p","p","l","y">>,
      <<"f","u","l","f","i","l","l","m","e","n","t">>
   >>,
   sales_analysis |-> <<
      <<"s","a","l","e","s">>,
      <<"r","e","v","e","n","u","e">>,
      <<"o","r","d","e","r","s">>,
      <<"s","e","l","l","i","n","g">>,
      <<"t","o","p">>,
      <<"b","e","s","t">>,
      <<"p","o","p","u","l","a","r">>,
      <<"p","e","r","f","o","r","m","a","n","c","e">>,
      <<"t","r","e","n","d">>,
      <<"g","r","o","w","t","h">>,
      <<"d","e","c","l","i","n","e">>,
      <<"r","e","v","e","n","u","e">>,
      <<"p","r","o","f","i","t">>
   >>,
   customer_analysis |-> <<
      <<"c","u","s","t","o","m","e","r">>,
      <<"r","e","p","e","a","t">>,
      <<"r","e","t","u","r","n","i","n","g">>,
      <<"l","o","y","a","l">>,
      <<"p","u","r","c","h","a","s","e">>,
      <<"b","u","y","e","r">>,
      <<"c","l","i","e","n","t">>,
      <<"u","s","e","r">>,
      <<"s","e","g","m","e","n","t">>,
      <<"b","e","h","a","v","i","o","r">>,
      <<"h","i","s","t","o","r","y">>
   >>,
   product_analysis |-> <<
      <<"p","r","o","d","u","c","t">>,
      <<"i","t","e","m">>,
      <<"s","k","u">>,
      <<"v","a","r","i","a","n","t">>,
      <<"c","a","t","e","g","o","r","y">>,
      <<"t","y","p","e">>,
      <<"m","o","d","e","l">>,
      <<"c","o","l","l","e","c","t","i","o","n">>,
      <<"b","r","a","n","d">>,
      <<"v","e","n","d","o","r">>
   >>,
   reorder_suggestion |-> <<
      <<"r","e","o","r","d","e","r">>,
      <<"o","r","d","e","r"," ","a","g","a","i","n">>,
      <<"b","u","y"," ","m","o","r","e">>,
      <<"p","u","r","c","h","a","s","e"," ","a","g","a","i","n">>,
      <<"n","e","e","d"," ","m","o","r","e">>,
      <<"r","e","q","u","i","r","e">>,
      <<"d","e","m","a","n","d">>,
      <<"n","e","x","t"," ","o","r","d","e","r">>
   >>,
   trend_analysis |-> <<
      <<"t","r","e","n","d">>,
      <<"p","a","t","t","e","r","n">>,
      <<"f","o","r","e","c","a","s","t">>,
      <<"p","r","o","j","e","c","t","i","o","n">>,
      <<"p","r","e","d","i","c","t">>,
      <<"e","s","t","i","m","a","t","e">>,
      <<"f","u","t","u","r","e">>,
      <<"n","e","x","t">>,
      <<"u","p","c","o","m","i","n","g">>,
      <<"s","e","a","s","o","n","a","l">>,
      <<"c","y","c","l","i","c","a","l">>
   >>]

(***************************************************************************)
(* IntentClassifier.classify_intent                                        *)
(***************************************************************************)
\* a slip: the keyword matched as a substring, without the two \b
KeywordAtSubstring(s, keyword, i) == LiteralAt(s, keyword, i)

\* r'\b' + re.escape(keyword) + r'\b' matches in s at position i
KeywordAt(s, keyword, i) ==
  /\ Boundary(s, i)
  /\ LiteralAt(s, keyword, i)
  /\ Boundary(s, i + Len(keyword))

\* len(re.findall(...)): the matches found scanning from position i, each
\* search resuming where the previous match ended
RECURSIVE CountMatches(_, _, _)
CountMatches(s, keyword, i) ==
  IF i + Len(keyword) - 1 > Len(s) THEN 0
  ELSE IF KeywordAt(s, keyword, i)
    THEN 1 + CountMatches(s, keyword, i + Len(keyword))
    ELSE CountMatches(s, keyword, i + 1)

\* the inner loop: score += len(matches), over the keywords from the k-th on
RECURSIVE SumMatches(_, _, _)
SumMatches(s, keywords, k) ==
  IF k > Len(keywords) THEN 0
  ELSE CountMatches(s, keywords[k], 1) + SumMatches(s, keywords, k + 1)

Score(question_lower, intent_type) ==
  SumMatches(question_lower, intent_keywords[intent_type], 1)

Scores(question) ==
  LET question_lower == lower(question)
  IN  [it \in IntentType |-> Score(question_lower, it)]

\* max(scores, key=scores.get): the keys in insertion order, a later key
\* replacing the best one only when its score is strictly greater
\* a slip: a later key replacing the best one on an equal score too
RECURSIVE MaxFromLast(_, _, _)
MaxFromLast(scores, best, i) ==
  IF i > Len(IntentOrder) THEN best
  ELSE IF scores[IntentOrder[i]] >= scores[best]
    THEN MaxFromLast(scores, IntentOrder[i], i + 1)
    ELSE MaxFromLast(scores, best, i + 1)

RECURSIVE MaxFrom(_, _, _)
MaxFrom(scores, best, i) ==
  IF i > Len(IntentOrder) THEN best
  ELSE IF scores[IntentOrder[i]] > scores[best]
    THEN MaxFrom(scores, IntentOrder[i], i + 1)
    ELSE MaxFrom(scores, best, i + 1)

MaxIntent(scores) == MaxFrom(scores, IntentOrder[1], 2)

RECURSIVE SumScores(_, _)
SumScores(scores, i) ==
  IF i > Len(IntentOrder) THEN 0
  ELSE scores[IntentOrder[i]] + SumScores(scores, i + 1)

\* A confidence is the quotient num / den of two naturals (den > 0); the
\* float 0.0 is 0 / 1.  max_score / total_score if total_score > 0 else 0.0
Confidence(max_score, total_score) ==
  IF total_score > 0
    THEN [num |-> max_score, den |-> total_score]
    ELSE [num |-> 0, den |-> 1]

\* min(confidence, 1.0)
CapConfidence(c) == IF c.num > c.den THEN [num |-> 1, den |-> 1] ELSE c

(***************************************************************************)
(* IntentClassifier._extract_entities.  A regular-expression match is a    *)
(* record [matched, group]; the patterns are matched the way re.search     *)
(* matches them: leftmost start, greedy runs, alternatives in the order    *)
(* written.                                                                *)
(***************************************************************************)
NoMatch == [matched |-> FALSE, group |-> <<>>]

Match(g) == [matched |-> TRUE, group |-> g]

TimeUnits ==
  <<<<"d","a","y">>, <<"d","a","y","s">>,
    <<"w","e","e","k">>, <<"w","e","e","k","s">>,
    <<"m","o","n","t","h">>, <<"m","o","n","t","h","s">>,
    <<"y","e","a","r">>, <<"y","e","a","r","s">>>>

\* the units _generate_inventory_query accepts
InventoryTimeUnits == SubSeq(TimeUnits, 1, 6)

\* (a|b|...) at position i: the first alternative, in the order written,
\* that occurs there
RECURSIVE FirstAlternative(_, _, _, _)
FirstAlternative(s, alternatives, i, k) ==
  IF k > Len(alternatives) THEN NoMatch
  ELSE IF LiteralAt(s, alternatives[k], i) THEN Match(alternatives[k])
  ELSE FirstAlternative(s, alternatives, i, k + 1)

\* (\d+)\s+(unit|...) matching at position i: groups 1 and 2
NumberUnitAt(s, units, i) ==
  LET d == RunEnd(s, i, Digits)
      w == RunEnd(s, d, Whitespace)
      u == FirstAlternative(s, units, w, 1)
  IN  IF d > i /\ w > d /\ u.matched
        THEN Match(<<SubSeq(s, i, d - 1), u.group>>)
        ELSE NoMatch

\* qualifier\s+(\d+)\s+(unit|...) matching at position i; the first time
\* pattern has no qualifier
TimePatternAt(s, qualifier, i) ==
  IF qualifier = <<>> THEN NumberUnitAt(s, TimeUnits, i)
  ELSE LET q == i + Len(qualifier)
           w == RunEnd(s, q, Whitespace)
       IN  IF LiteralAt(s, qualifier, i) /\ w > q
             THEN NumberUnitAt(s, TimeUnits, w)
             ELSE NoMatch

time_patterns ==
  <<<<>>, <<"l","a","s","t">>, <<"n","e","x","t">>, <<"p","a","s","t">>,
    <<"p","r","e","v","i","o","u","s">>>>

\* keyword\s+([A-Za-z0-9\s\-_]+) under IGNORECASE at position i.  \s+ takes
\* the whole run of white space and hands back its last character when
\* nothing else is left for the group
NamePatternAt(s, keyword, i) ==
  LET q == i + Len(keyword)
      w == RunEnd(s, q, Whitespace)
      e == RunEnd(s, w, NameChars)
  IN  IF ~LiteralAtIgnoreCase(s, keyword, i) \/ w = q THEN NoMatch
      ELSE IF e > w THEN Match(SubSeq(s, w, e - 1))
      ELSE IF w > q + 1 THEN Match(SubSeq(s, w - 1, w - 1))
      ELSE NoMatch

\* "([^"]+)" at position i
QuotedAt(s, i) ==
  LET e == RunEnd(s, i + 1, {s[k] : k \in 1..Len(s)} \ {"\""})
  IN  IF i <= Len(s) /\ s[i] = "\"" /\ e > i + 1 /\ e <= Len(s)
        THEN Match(SubSeq(s, i + 1, e - 1))
        ELSE NoMatch

\* a slip: the quoted pattern tried before the other two
product_patterns_quoted_first ==
  <<<<"\"">>, <<"p","r","o","d","u","c","t">>, <<"i","t","e","m">>>>

product_patterns ==
  <<<<"p","r","o","d","u","c","t">>, <<"i","t","e","m">>, <<"\"">>>>

ProductPatternAt(s, p, i) ==
  IF p = <<"\"">> THEN QuotedAt(s, i) ELSE NamePatternAt(s, p, i)

\* keyword\s+(\d+) under IGNORECASE at position i
WordNumberAt(s, keyword, i) ==
  LET q == i + Len(keyword)
      w == RunEnd(s, q, Whitespace)
      d == RunEnd(s, w, Digits)
  IN  IF LiteralAtIgnoreCase(s, keyword, i) /\ w > q /\ d > w
        THEN Match(SubSeq(s, w, d - 1))
        ELSE NoMatch

\* (\d+)\s+keyword under IGNORECASE at position i
NumberWordAt(s, keyword, i) ==
  LET d == RunEnd(s, i, Digits)
      w == RunEnd(s, d, Whitespace)
  IN  IF d > i /\ w > d /\ LiteralAtIgnoreCase(s, keyword, w)
        THEN Match(SubSeq(s, i, d - 1))
        ELSE NoMatch

metric_patterns == <<"top", "best", "n best">>

MetricPatternAt(s, p, i) ==
  IF p = "top" THEN WordNumberAt(s, <<"t","o","p">>, i)
  ELSE IF p = "best" THEN WordNumberAt(s, <<"b","e","s","t">>, i)
  ELSE NumberWordAt(s, <<"b","e","s","t">>, i)

\* re.search: the match at the leftmost position where the pattern matches
Search(s, At(_, _)) ==
  LET hits == {i \in 1..Len(s) : At(s, i).matched}
  IN  IF hits = {} THEN NoMatch ELSE At(s, Min(hits))

SearchTime(s, p) == LET At(t, i) == TimePatternAt(t, p, i) IN Search(s, At)

SearchProduct(s, p) == LET At(t, i) == ProductPatternAt(t, p, i) IN Search(s, At)

SearchMetric(s, p) == LET At(t, i) == MetricPatternAt(t, p, i) IN Search(s, At)

\* for pattern in patterns: match = re.search(...); if match: ...; break
RECURSIVE FirstMatch(_, _, _, _)
FirstMatch(s, patterns, SearchOne(_, _), k) ==
  IF k > Len(patterns) THEN NoMatch
  ELSE LET m == SearchOne(s, patterns[k])
       IN  IF m.matched THEN m ELSE FirstMatch(s, patterns, SearchOne, k + 1)

\* a dict with string keys: a function on the set of its keys
EmptyDict == <<>>

Put(d, key, value) == (key :> value) @@ d

Get(d, key, default) == IF key \in DOMAIN d THEN d[key] ELSE default

ExtractEntities(question) ==
  LET t == FirstMatch(lower(question), time_patterns, SearchTime, 1)
      p == FirstMatch(question, product_patterns, SearchProduct, 1)
      m == FirstMatch(question, metric_patterns, SearchMetric, 1)
      e1 == IF t.matched
              THEN Put(EmptyDict, "time_period",
                       t.group[1] \o <<" ">> \o t.group[2])
              ELSE EmptyDict
      e2 == IF p.matched THEN Put(e1, "product_name", strip(p.group)) ELSE e1
  IN  IF m.matched THEN Put(e2, "top_n", m.group) ELSE e2

\* the IntentClassification built from the scores of the six intents
Classification(scores, question) ==
  LET max_intent == MaxIntent(scores)
  IN  [intent_type |-> max_intent,
       confidence |-> CapConfidence(
                        Confidence(scores[max_intent], SumScores(scores, 1))),
       entities |-> ExtractEntities(question)]

ClassifyIntent(question) == Classification(Scores(question), question)

(***************************************************************************)
(* Python values as they come out of response.json(), and the outcome of   *)
(* evaluating an expression: a value, or a raised exception.               *)
(***************************************************************************)
PyNone == [t |-> "None"]

PyInt(n) == [t |-> "int", v |-> n]

PyStr(s) == [t |-> "str", v |-> s]

PyBool(b) == [t |-> "bool", v |-> b]

PyList(xs) == [t |-> "list", v |-> xs]

PyDict(d) == [t |-> "dict", v |-> d]

Return(value) == [raised |-> FALSE, value |-> value]

Raise == [raised |-> TRUE, value |-> PyNone]

(***************************************************************************)
(* ShopifyQLGenerator.  A query is the text of its template with the       *)
(* values the template interpolates: the record count after `first:` and   *)
(* the text of the `query:` filter (empty where the template has none).    *)
(***************************************************************************)
Query(template, first, filter) ==
  [template |-> template, first |-> first, filter |-> filter]

ShopifyQLQuery(query, parameters) ==
  [query |-> query, parameters |-> parameters]

\* str(int(digits)): the decimal numeral without its leading zeros
RECURSIVE StrOfInt(_)
StrOfInt(digits) ==
  IF Len(digits) > 1 /\ Head(digits) = "0" THEN StrOfInt(Tail(digits))
  ELSE digits

\* sys.int_info.default_max_str_digits: int() of a longer numeral raises
\* ValueError
int_max_str_digits == 4300

\* str(int(digits)), or the ValueError of int(digits)
StrInt(digits) ==
  IF Len(digits) > int_max_str_digits THEN Raise
  ELSE Return(StrOfInt(digits))

GenerateInventoryQuery(intent) ==
  LET time_period ==
        Get(intent.entities, "time_period", <<"3","0"," ","d","a","y","s">>)
      \* re.match: the pattern anchored at the start of time_period
      time_match == NumberUnitAt(time_period, InventoryTimeUnits, 1)
      time_value == IF time_match.matched
                      THEN StrInt(time_match.group[1])
                      ELSE Return(<<"3","0">>)
  IN  IF time_value.raised THEN Raise
      ELSE Return(ShopifyQLQuery(
             Query("inventory_analysis", <<"5","0">>, <<>>),
             Put(Put(EmptyDict, "time_period", time_period),
                 "time_value", time_value.value)))

GenerateSalesQuery(intent) ==
  LET top_n == Get(intent.entities, "top_n", <<"5">>)
      time_period ==
        Get(intent.entities, "time_period", <<"7"," ","d","a","y","s">>)
  IN  ShopifyQLQuery(
        Query("sales_analysis", top_n, <<>>),
        Put(Put(EmptyDict, "top_n", top_n), "time_period", time_period))

GenerateCustomerQuery(intent) ==
  LET time_period ==
        Get(intent.entities, "time_period", <<"9","0"," ","d","a","y","s">>)
  IN  ShopifyQLQuery(
        Query("customer_analysis", <<"5","0">>, <<>>),
        Put(EmptyDict, "time_period", time_period))

GenerateProductQuery(intent) ==
  LET product_name == Get(intent.entities, "product_name", <<>>)
  IN  ShopifyQLQuery(
        Query("product_analysis", <<"2","0">>, product_name),
        Put(EmptyDict, "product_name", product_name))

GenerateReorderQuery(intent) ==
  LET time_period ==
        Get(intent.entities, "time_period", <<"3","0"," ","d","a","y","s">>)
  IN  ShopifyQLQuery(
        Query("reorder_suggestion", <<"2","0">>, <<>>),
        Put(EmptyDict, "time_period", time_period))

GenerateTrendQuery(intent) ==
  LET time_period ==
        Get(intent.entities, "time_period", <<"3","0"," ","d","a","y","s">>)
  IN  ShopifyQLQuery(
        Query("trend_analysis", <<"5","0">>, <<>>),
        Put(EmptyDict, "time_period", time_period))

\* query_templates: every IntentType has its generator, so the default
\* query is out of reach of a classification
GenerateQuery(intent) ==
  CASE intent.intent_type = "inventory_analysis" -> GenerateInventoryQuery(intent)
    [] intent.intent_type = "sales_analysis" -> Return(GenerateSalesQuery(intent))
    [] intent.intent_type = "customer_analysis" -> Return(GenerateCustomerQuery(intent))
    [] intent.intent_type = "product_analysis" -> Return(GenerateProductQuery(intent))
    [] intent.intent_type = "reorder_suggestion" -> Return(GenerateReorderQuery(intent))
    [] intent.intent_type = "trend_analysis" -> Return(GenerateTrendQuery(intent))
    [] OTHER -> Return(ShopifyQLQuery(Query("default", <<"1","0">>, <<>>), EmptyDict))

\* bool(x)
Truthy(x) ==
  CASE x.t = "None" -> FALSE
    [] x.t = "int" -> x.v # 0
    [] x.t = "str" -> x.v # ""
    [] x.t = "bool" -> x.v
    [] x.t = "list" -> x.v # <<>>
    [] x.t = "dict" -> DOMAIN x.v # {}

\* key in x, for a dict x
HasKey(x, key) == x.t = "dict" /\ key \in DOMAIN x.v

\* x.get(key, default): AttributeError unless x is a dict
DictGet(x, key, default) ==
  IF x.t = "dict" THEN Return(Get(x.v, key, default)) ELSE Raise

\* x.get(k1, {}).get(k2, default)
DictGet2(x, k1, k2, default) ==
  LET a == DictGet(x, k1, PyDict(EmptyDict))
  IN  IF a.raised THEN Raise ELSE DictGet(a.value, k2, default)

\* a slip: the slice taken one element too long
SliceOneMore(x, n) ==
  IF x.t = "list"
    THEN Return(PyList(SubSeq(x.v, 1,
                              IF Len(x.v) < n + 1 THEN Len(x.v) ELSE n + 1)))
    ELSE Raise

\* x[:n]: TypeError on None, a number or a dict
Slice(x, n) ==
  IF x.t = "list"
    THEN Return(PyList(SubSeq(x.v, 1, IF Len(x.v) < n THEN Len(x.v) ELSE n)))
    ELSE Raise

\* len(x): TypeError on None and on a number
PyLen(x) ==
  CASE x.t = "list" -> Return(PyInt(Len(x.v)))
    [] x.t = "dict" -> Return(PyInt(Cardinality(DOMAIN x.v)))
    [] OTHER -> Raise

\* the text an f-string puts for x
Format(x) ==
  CASE x.t = "None" -> "None"
    [] x.t = "str" -> x.v
    [] OTHER -> ToString(x.v)

\* (a + " " + b).strip(), for a and b without white space at their ends
JoinStripped(a, b) ==
  IF a = "" THEN b ELSE IF b = "" THEN a ELSE a \o " " \o b

(***************************************************************************)
(* ShopifyAPIClient.execute_graphql_query.  The remote side answers with   *)
(* a transport outcome and, when the transport worked, a JSON body.        *)
(***************************************************************************)
ErrorResult(errors) == PyDict([data |-> PyNone, errors |-> errors])

ExecuteGraphqlQuery(reply) ==
  IF reply.transport = "ok"
    THEN IF HasKey(reply.body, "errors")
           THEN ErrorResult(reply.body.v["errors"])
           ELSE reply.body
    \* requests.exceptions.RequestException, or any other exception
    ELSE ErrorResult(PyList(<<PyStr(reply.transport)>>))

(***************************************************************************)
(* AIAgent._process_shopify_data                                           *)
(***************************************************************************)
\* the outcomes of processing the records of a list, in order: the list of
\* the results, or the exception the first failing record raises
RECURSIVE ForEach(_, _, _)
ForEach(items, One(_), k) ==
  IF k > Len(items) THEN Return(<<>>)
  ELSE LET r == One(items[k])
       IN  IF r.raised THEN Raise
           ELSE LET rest == ForEach(items, One, k + 1)
                IN  IF rest.raised THEN Raise
                    ELSE Return(<<r.value>> \o rest.value)

\* node.get(key), for a node that is a dict
Field(node, key) == Get(node.v, key, PyNone)

InventoryRecord(item) ==
  LET node == DictGet(item, "node", PyDict(EmptyDict))
  IN  IF node.raised \/ node.value.t # "dict" THEN Raise
      ELSE Return([sku |-> Field(node.value, "sku"),
                   display_name |-> Field(node.value, "displayName"),
                   available |-> Field(node.value, "totalAvailable"),
                   tracked |-> Field(node.value, "tracked")])

SalesRecord(product) ==
  LET node == DictGet(product, "node", PyDict(EmptyDict))
      edges == DictGet2(node.value, "variants", "edges", PyList(<<>>))
      count == PyLen(edges.value)
  IN  IF node.raised \/ edges.raised \/ count.raised THEN Raise
      ELSE Return([title |-> Field(node.value, "title"),
                   total_inventory |-> Field(node.value, "totalInventory"),
                   variants |-> count.value])

CustomerRecord(customer) ==
  LET node == DictGet(customer, "node", PyDict(EmptyDict))
      first == DictGet(node.value, "firstName", PyStr(""))
      last == DictGet(node.value, "lastName", PyStr(""))
      amount == DictGet2(node.value, "totalSpent", "amount", PyNone)
  IN  IF node.raised \/ first.raised \/ amount.raised THEN Raise
      ELSE Return([name |-> PyStr(JoinStripped(Format(first.value),
                                               Format(last.value))),
                   email |-> Field(node.value, "email"),
                   orders_count |-> Field(node.value, "ordersCount"),
                   total_spent |-> amount.value])

ProductRecord(product) ==
  LET node == DictGet(product, "node", PyDict(EmptyDict))
  IN  IF node.raised \/ node.value.t # "dict" THEN Raise
      ELSE Return([title |-> Field(node.value, "title"),
                   product_type |-> Field(node.value, "productType"),
                   vendor |-> Field(node.value, "vendor"),
                   total_inventory |-> Field(node.value, "totalInventory")])

VariantRecord(v) ==
  LET node == DictGet(v, "node", PyDict(EmptyDict))
  IN  IF node.raised \/ node.value.t # "dict" THEN Raise
      ELSE Return([sku |-> Field(node.value, "sku"),
                   inventory_quantity |-> Field(node.value, "inventoryQuantity")])

ReorderRecord(product) ==
  LET node == DictGet(product, "node", PyDict(EmptyDict))
      edges == DictGet2(node.value, "variants", "edges", PyList(<<>>))
      first5 == Slice(edges.value, 5)
      variants == ForEach(first5.value.v, VariantRecord, 1)
  IN  IF node.raised \/ node.value.t # "dict" \/ edges.raised \/ first5.raised
         \/ variants.raised
        THEN Raise
        ELSE Return([title |-> Field(node.value, "title"),
                     total_inventory |-> Field(node.value, "totalInventory"),
                     variants |-> PyList(variants.value)])

OrderRecord(order) ==
  LET node == DictGet(order, "node", PyDict(EmptyDict))
      price == DictGet2(node.value, "totalPrice", "amount", PyNone)
      edges == DictGet2(node.value, "lineItems", "edges", PyList(<<>>))
      count == PyLen(edges.value)
  IN  IF node.raised \/ price.raised \/ edges.raised \/ count.raised THEN Raise
      ELSE Return([name |-> Field(node.value, "name"),
                   created_at |-> Field(node.value, "createdAt"),
                   total_price |-> price.value,
                   line_items_count |-> count.value])

\* data.get(collection, {}).get("edges", [])[:10], each edge processed by
\* One, the list of the results returned under the key `key`
Collect(data, collection, key, One(_)) ==
  LET edges == DictGet2(data, collection, "edges", PyList(<<>>))
      first10 == Slice(edges.value, 10)
      processed == ForEach(first10.value.v, One, 1)
  IN  IF edges.raised \/ first10.raised \/ processed.raised THEN Raise
      ELSE Return(key :> processed.value)

NoDataMessage == [message |-> "No data returned from Shopify API"]

ProcessShopifyData(raw_data, intent) ==
  IF ~HasKey(raw_data, "data") \/ ~Truthy(raw_data.v["data"])
    THEN Return(NoDataMessage)
  ELSE LET data == raw_data.v["data"]
           it == intent.intent_type
       IN  CASE it = "inventory_analysis" ->
                  Collect(data, "inventoryItems", "inventory_items", InventoryRecord)
             [] it = "sales_analysis" ->
                  Collect(data, "products", "products", SalesRecord)
             [] it = "customer_analysis" ->
                  Collect(data, "customers", "customers", CustomerRecord)
             [] it = "product_analysis" ->
                  Collect(data, "products", "products", ProductRecord)
             [] it = "reorder_suggestion" ->
                  Collect(data, "products", "reorder_suggestions", ReorderRecord)
             [] it = "trend_analysis" ->
                  Collect(data, "orders", "orders", OrderRecord)
             [] OTHER -> Return([raw_data_keys |-> DOMAIN data.v])

(***************************************************************************)
(* AIAgent._generate_response and AIAgent._generate_fallback_response.     *)
(* An answer is the text of a sentence with the values it interpolates.    *)
(***************************************************************************)
Answer(text, args) == [text |-> text, args |-> args]

\* lit in s
Contains(s, lit) == \E i \in 1..Len(s) : LiteralAt(s, lit, i)

First(xs, n) == SubSeq(xs, 1, IF Len(xs) < n THEN Len(xs) ELSE n)

\* x < n and x > n: TypeError unless x is a number
IsNumber(x) == x.t = "int"

\* [item for item in items if item.get("available", 0) < 10]
LowStock(items) ==
  IF \E k \in 1..Len(items) : ~IsNumber(items[k].available) THEN Raise
  ELSE Return(SelectSeq(items, LAMBDA item : item.available.v < 10))

\* ', '.join(names): TypeError unless every name is a str
JoinNames(names) ==
  IF \E k \in 1..Len(names) : names[k].t # "str" THEN Raise
  ELSE Return(PyList(names))

\* a slip: every low item named, not the first three
LowStockNamesAll(low_stock) ==
  JoinNames([k \in 1..Len(low_stock) |-> low_stock[k].display_name])

\* ', '.join([item['display_name'] for item in low_stock[:3]])
LowStockNames(low_stock) ==
  JoinNames([k \in 1..Len(First(low_stock, 3)) |-> low_stock[k].display_name])

InventoryFallback(processed_data) ==
  LET items == Get(processed_data, "inventory_items", <<>>)
      low_stock == LowStock(items)
      names == LowStockNames(low_stock.value)
  IN  IF items = <<>>
        THEN Return(Answer("I found your inventory data, but need more time to analyze it properly.", <<>>))
      ELSE IF low_stock.raised THEN Raise
      ELSE IF low_stock.value = <<>>
        THEN Return(Answer("Your inventory looks good - no items are running low on stock.", <<>>))
      ELSE IF names.raised THEN Raise
      ELSE Return(Answer("Based on your data, you have {} items with low stock (less than 10 units). Consider reordering these soon: {}.",
                         <<PyInt(Len(low_stock.value)), names.value>>))

\* product_names = [p.get("title", "Unknown") for p in products[:5]], of
\* which the first three are joined
TopProductNames(products) ==
  LET top_products == First(products, 5)
      product_names == [k \in 1..Len(top_products) |-> top_products[k].title]
  IN  JoinNames(First(product_names, 3))

SalesFallback(processed_data) ==
  LET products == Get(processed_data, "products", <<>>)
      names == TopProductNames(products)
  IN  IF products = <<>>
        THEN Return(Answer("I found your product data, but need more time to analyze sales performance.", <<>>))
      ELSE IF names.raised THEN Raise
      ELSE Return(Answer("Your top products are: {}. These are performing well in terms of inventory.",
                         <<names.value>>))

Max(S) == CHOOSE x \in S : \A y \in S : y <= x

CustomerFallback(processed_data) ==
  LET customers == Get(processed_data, "customers", <<>>)
      counts == {customers[k].orders_count.v : k \in 1..Len(customers)}
  IN  IF customers = <<>>
        THEN Return(Answer("I found your customer data, but need more time to analyze customer behavior.", <<>>))
      \* c.get("orders_count", 0) > 1
      ELSE IF \E k \in 1..Len(customers) : ~IsNumber(customers[k].orders_count)
        THEN Raise
      ELSE Return(Answer("You have {} repeat customers. Your most valuable customers have ordered {} times.",
                         <<PyInt(Len(SelectSeq(customers,
                                   LAMBDA c : c.orders_count.v > 1))),
                           PyInt(Max(counts \cup {0}))>>))

\* a str kept as its characters
PyText(chars) == [t |-> "text", v |-> chars]

\* str(x)[:200]: the rendering of x, cut to 200 characters
PyRepr200(x) == [t |-> "repr200", v |-> x]

GenerateFallbackResponse(question, processed_data) ==
  LET q == lower(question)
  IN  IF Contains(q, <<"i","n","v","e","n","t","o","r","y">>)
         \/ Contains(q, <<"s","t","o","c","k">>)
        THEN InventoryFallback(processed_data)
      ELSE IF Contains(q, <<"t","o","p">>) \/ Contains(q, <<"b","e","s","t">>)
              \/ Contains(q, <<"s","a","l","e","s">>)
        THEN SalesFallback(processed_data)
      ELSE IF Contains(q, <<"c","u","s","t","o","m","e","r">>)
              \/ Contains(q, <<"r","e","p","e","a","t">>)
        THEN CustomerFallback(processed_data)
      ELSE Return(Answer("I've analyzed your Shopify data regarding '{}'. The data shows: {}... (truncated). For a more detailed analysis, I recommend checking your Shopify admin dashboard.",
                         <<PyText(question), PyRepr200(processed_data)>>))

\* what openai.ChatCompletion.create and the reading of its response do
GenerationOutcomes == {"completion", "api_error", "no_choices", "no_content"}

\* response.choices[0].message.content.strip()
GeneratedAnswer == Answer("{}", <<PyStr("generated text")>>)

GenerateResponse(question, processed_data, outcome) ==
  IF outcome = "completion" THEN Return(GeneratedAnswer)
  ELSE GenerateFallbackResponse(question, processed_data)

\* a slip: the two thresholds taken as inclusive
DetermineConfidenceInclusive(classifier_confidence) ==
  IF 10 * classifier_confidence.num >= 8 * classifier_confidence.den
    THEN "high"
  ELSE IF 10 * classifier_confidence.num >= 5 * classifier_confidence.den
    THEN "medium"
  ELSE "low"

\* AIAgent._determine_confidence, on a confidence num / den
DetermineConfidence(classifier_confidence) ==
  IF 10 * classifier_confidence.num > 8 * classifier_confidence.den
    THEN "high"
  ELSE IF 10 * classifier_confidence.num > 5 * classifier_confidence.den
    THEN "medium"
  ELSE "low"

(***************************************************************************)
(* The results process_question returns                                    *)
(***************************************************************************)
\* a slip: the access-error result built like the handler's, without query
AccessErrorResultNoQuery(query) ==
  [answer |-> Answer("Sorry, I encountered an error while accessing your Shopify store data.", <<>>),
   confidence |-> "low",
   query_used |-> PyNone,
   data_summary |-> PyNone]

AccessErrorResult(query) ==
  [answer |-> Answer("Sorry, I encountered an error while accessing your Shopify store data.", <<>>),
   confidence |-> "low",
   query_used |-> query,
   data_summary |-> PyNone]

SuccessResult(response, confidence, query, processed_result) ==
  [answer |-> response,
   confidence |-> DetermineConfidence(confidence),
   query_used |-> query,
   data_summary |-> processed_result]

\* a slip: the handler's result with a confidence outside the three labels
GenericErrorResultNoLabel ==
  [answer |-> Answer("Sorry, I encountered an error while processing your question.", <<>>),
   confidence |-> "none",
   query_used |-> PyNone,
   data_summary |-> PyNone]

GenericErrorResult ==
  [answer |-> Answer("Sorry, I encountered an error while processing your question.", <<>>),
   confidence |-> "low",
   query_used |-> PyNone,
   data_summary |-> PyNone]

\* "errors" in raw_data and raw_data["errors"]
HasErrors(raw_data) ==
  HasKey(raw_data, "errors") /\ Truthy(raw_data.v["errors"])

(***************************************************************************)
(* What the remote store can answer.  A collection has up to MaxEdges      *)
(* records (or 25), each a well-formed node, except that one record may    *)
(* carry one defect: a field absent or null, a low quantity, an edge       *)
(* without node, a nested connection without edges.                        *)
(***************************************************************************)
Name(i) == "item" \o ToString(i)

\* the collection at the root of each query template
RootOf(template) ==
  CASE template = "inventory_analysis" -> "inventoryItems"
    [] template = "customer_analysis" -> "customers"
    [] template = "trend_analysis" -> "orders"
    [] OTHER -> "products"

Connection(edges) == PyDict([edges |-> PyList(edges)])

Edge(node) == PyDict([node |-> PyDict(node)])

VariantEdge(j) ==
  Edge([sku |-> PyStr(Name(j)), inventoryQuantity |-> PyInt(j)])

LineItemEdge(j) ==
  Edge([title |-> PyStr(Name(j)), quantity |-> PyInt(j)])

\* the i-th node of a collection, with k nested variants or line items
GoodNode(collection, i, k) ==
  CASE collection = "inventoryItems" ->
         [sku |-> PyStr(Name(i)), displayName |-> PyStr(Name(i)),
          totalAvailable |-> PyInt(20), tracked |-> PyBool(TRUE)]
    [] collection = "products" ->
         [title |-> PyStr(Name(i)), totalInventory |-> PyInt(20),
          productType |-> PyStr("type"), vendor |-> PyStr("vendor"),
          variants |-> Connection([j \in 1..k |-> VariantEdge(j)])]
    [] collection = "customers" ->
         [firstName |-> PyStr("first"), lastName |-> PyStr(Name(i)),
          email |-> PyStr(Name(i)), ordersCount |-> PyInt(i % 3),
          totalSpent |-> PyDict([amount |-> PyStr("10.0")])]
    [] collection = "orders" ->
         [name |-> PyStr(Name(i)), createdAt |-> PyStr("date"),
          totalPrice |-> PyDict([amount |-> PyStr("10.0")]),
          lineItems |-> Connection([j \in 1..k |-> LineItemEdge(j)])]

Nested(collection) ==
  CASE collection = "products" -> {"variants"}
    [] collection = "orders" -> {"lineItems"}
    [] OTHER -> {}

Defects(collection) ==
  LET fields == DOMAIN GoodNode(collection, 1, 0)
  IN  {<<kind, f>> : kind \in {"absent", "null"}, f \in fields}
        \cup {<<"edge", "empty">>, <<"edge", "null">>}
        \cup {<<"no_edges", f>> : f \in Nested(collection)}
        \cup (IF collection = "inventoryItems"
                THEN {<<"low", "totalAvailable">>} ELSE {})

DefectiveEdge(collection, i, k, defect) ==
  LET node == GoodNode(collection, i, k)
  IN  CASE defect[1] = "absent" ->
             Edge([f \in DOMAIN node \ {defect[2]} |-> node[f]])
        [] defect[1] = "null" -> Edge([node EXCEPT ![defect[2]] = PyNone])
        [] defect[1] = "no_edges" ->
             Edge([node EXCEPT ![defect[2]] = PyDict([edges |-> PyNone])])
        [] defect[1] = "low" -> Edge([node EXCEPT ![defect[2]] = PyInt(3)])
        [] defect = <<"edge", "empty">> -> PyDict(EmptyDict)
        [] defect = <<"edge", "null">> -> PyDict([node |-> PyNone])

GoodEdges(collection, n, k) ==
  [i \in 1..n |-> Edge(GoodNode(collection, i, k))]

EdgeLists(collection) ==
  {GoodEdges(collection, n, k) : n \in 0..MaxEdges, k \in 0..MaxVariants}
    \cup {GoodEdges(collection, 25, 1)}
    \cup UNION {{[GoodEdges(collection, n, 1) EXCEPT
                     ![p] = DefectiveEdge(collection, p, 1, d)] :
                    p \in 1..n, d \in Defects(collection)} :
                 n \in 1..MaxEdges}

RateLimited == PyList(<<PyStr("rate limited")>>)

Bodies(collection) ==
  {PyDict(EmptyDict),
   PyDict([data |-> PyNone]),
   PyDict([data |-> PyDict(EmptyDict)]),
   PyDict([errors |-> PyList(<<>>)]),
   PyDict([errors |-> PyNone]),
   PyDict([errors |-> RateLimited]),
   PyDict([data |-> PyDict(collection :> Connection(GoodEdges(collection, 2, 1))),
           errors |-> RateLimited]),
   PyDict([data |-> PyDict([shop |-> PyDict(EmptyDict)])]),
   PyDict([data |-> PyDict(collection :> PyNone)]),
   PyDict([data |-> PyDict(collection :> PyDict(EmptyDict))]),
   PyDict([data |-> PyDict(collection :> PyDict([edges |-> PyNone]))])}
    \cup {PyDict([data |-> PyDict(collection :> Connection(edges))]) :
            edges \in EdgeLists(collection)}

Replies(collection) ==
  {[transport |-> "ok", body |-> b] : b \in Bodies(collection)}
    \cup {[transport |-> e, body |-> PyDict(EmptyDict)] :
            e \in {"request error", "unexpected error"}}

(***************************************************************************)
(* AIAgent.process_question, one request from the call to the return.      *)
(***************************************************************************)
VARIABLES
  question,               \* the argument of process_question
  pc,                     \* the statement the request is at
  scores,                 \* classify_intent's local scores
  intent_classification,
  shopifyql_query,
  raw_data,
  processed_result,
  generation,             \* "none", "completed" or "failed": the openai call
  calls,                  \* the stages invoked so far, in order
  raised,                 \* the stage whose exception the handler caught
  result,                 \* the dict process_question returns
  store_id,               \* the arguments store_id and access_token
  access_token,
  shopify_client,         \* the ShopifyAPIClient of the request
  fetched,                \* the store and the token the fetch was sent with
  site,                   \* shopify.ShopifyResource's site, process-wide
  other,                  \* the frame of the request that is not running
  response                \* the HTTP response of the endpoint

vars ==
  <<question, pc, scores, intent_classification, shopifyql_query, raw_data,
    processed_result, generation, calls, raised, result, store_id,
    access_token, shopify_client, fetched, site, other, response>>

\* what the steps of the pipeline other than the construction of the
\* client and the fetch leave alone
outside ==
  <<store_id, access_token, shopify_client, fetched, site, other, response>>

Stores == {"store1", "store2"}

\* the access token a store accepts
TokenOf(store) == PyStr("token of " \o store)

\* the locals of a request for question q that stands at statement `at`
Locals(q, at) ==
  /\ question = q
  /\ pc = at
  /\ scores = [it \in IntentType |-> 0]
  /\ intent_classification = PyNone
  /\ shopifyql_query = PyNone
  /\ raw_data = PyNone
  /\ processed_result = PyNone
  /\ generation = "none"
  /\ calls = <<>>
  /\ raised = "none"
  /\ result = PyNone

\* the arguments of the request, nothing of it done yet
Called(store, token) ==
  /\ store_id = store
  /\ access_token = token
  /\ shopify_client = PyNone
  /\ fetched = PyNone
  /\ response = PyNone

\* no other request in the process, the shopify library not configured
Alone == site = PyNone /\ other = PyNone

\* process_question(q, store, token) entered, for the token of some store
Start(q) ==
  /\ Locals(q, "classify")
  /\ \E store \in Stores : Called(store, TokenOf(store))
  /\ Alone

\* Step 1: classify intent
Classify ==
  /\ pc = "classify"
  /\ scores' = Scores(question)
  /\ intent_classification' = Classification(scores', question)
  /\ calls' = Append(calls, "classify")
  /\ pc' = "generate_query"
  /\ UNCHANGED <<question, shopifyql_query, raw_data, processed_result,
                 generation, raised, result>>
  /\ UNCHANGED outside

\* Step 2: generate the query
GenerateQueryStep ==
  /\ pc = "generate_query"
  /\ calls' = Append(calls, "generate_query")
  /\ LET r == GenerateQuery(intent_classification)
     IN  IF r.raised
           THEN /\ pc' = "except"
                /\ raised' = "generate_query"
                /\ UNCHANGED shopifyql_query
           ELSE /\ pc' = "client"
                /\ shopifyql_query' = r.value
                /\ UNCHANGED raised
  /\ UNCHANGED <<question, scores, intent_classification, raw_data,
                 processed_result, generation, result>>
  /\ UNCHANGED outside

\* Step 3: ShopifyAPIClient(store_id, access_token), whose set_site is a
\* call into the shopify library that returns or raises
ConstructClient(site_ok) ==
  /\ pc = "client"
  /\ pc' = IF site_ok THEN "fetch" ELSE "except"
  /\ raised' = IF site_ok THEN raised ELSE "client"
  /\ shopify_client' =
       IF site_ok
         THEN [store_domain |-> store_id, access_token |-> access_token]
         ELSE shopify_client
  \* set_site writes the site and the token for the whole process; when it
  \* raises, it has written them or not
  /\ \/ site' = [store_domain |-> store_id, access_token |-> access_token]
     \/ ~site_ok /\ site' = site
  /\ UNCHANGED <<question, scores, intent_classification, shopifyql_query,
                 raw_data, processed_result, generation, calls, result>>
  /\ UNCHANGED <<store_id, access_token, fetched, other, response>>

\* a slip: a fetch that returned errors is tried again
ExecuteQueryRetried(reply) ==
  /\ pc = "fetch"
  /\ raw_data' = ExecuteGraphqlQuery(reply)
  /\ calls' = Append(calls, "fetch")
  /\ pc' = IF HasErrors(raw_data') THEN "fetch" ELSE "process"
  /\ UNCHANGED <<question, scores, intent_classification, shopifyql_query,
                 processed_result, generation, raised, result>>
  /\ fetched' = shopify_client
  /\ UNCHANGED <<store_id, access_token, shopify_client, site, other, response>>

\* Step 3: execute_graphql_query, and the test of raw_data["errors"]
ExecuteQuery(reply) ==
  /\ pc = "fetch"
  /\ raw_data' = ExecuteGraphqlQuery(reply)
  /\ calls' = Append(calls, "fetch")
  /\ IF HasErrors(raw_data')
       THEN /\ result' = AccessErrorResult(shopifyql_query.query)
            /\ pc' = "done"
       ELSE /\ pc' = "process"
            /\ UNCHANGED result
  /\ UNCHANGED <<question, scores, intent_classification, shopifyql_query,
                 processed_result, generation, raised>>
  /\ fetched' = shopify_client
  /\ UNCHANGED <<store_id, access_token, shopify_client, site, other, response>>

\* Step 4: process the raw data
ProcessData ==
  /\ pc = "process"
  /\ calls' = Append(calls, "process")
  /\ LET r == ProcessShopifyData(raw_data, intent_classification)
     IN  IF r.raised
           THEN /\ pc' = "except"
                /\ raised' = "process"
                /\ UNCHANGED processed_result
           ELSE /\ pc' = "respond"
                /\ processed_result' = r.value
                /\ UNCHANGED raised
  /\ UNCHANGED <<question, scores, intent_classification, shopifyql_query,
                 raw_data, generation, result>>
  /\ UNCHANGED outside

\* Step 5: generate the response, by openai or by the fallback, and return
Respond(outcome) ==
  /\ pc = "respond"
  /\ generation' = IF outcome = "completion" THEN "completed" ELSE "failed"
  /\ calls' = calls \o (IF outcome = "completion"
                          THEN <<"generate">>
                          ELSE <<"generate", "fallback">>)
  /\ LET r == GenerateResponse(question, processed_result, outcome)
     IN  IF r.raised
           THEN /\ pc' = "except"
                /\ raised' = "fallback"
                /\ UNCHANGED result
           ELSE /\ pc' = "done"
                /\ result' = SuccessResult(r.value,
                                           intent_classification.confidence,
                                           shopifyql_query.query,
                                           processed_result)
                /\ UNCHANGED raised
  /\ UNCHANGED <<question, scores, intent_classification, shopifyql_query,
                 raw_data, processed_result>>
  /\ UNCHANGED outside

\* except Exception as e
HandleException ==
  /\ pc = "except"
  /\ result' = GenericErrorResult
  /\ pc' = "done"
  /\ UNCHANGED <<question, scores, intent_classification, shopifyql_query,
                 raw_data, processed_result, generation, calls, raised>>
  /\ UNCHANGED outside

\* What's low on stock?
q_low_stock ==
  <<"W","h","a","t","'","s"," ","l","o","w"," ","o","n"," ","s","t","o","c","k","?">>

\* top 3 products
q_top_products ==
  <<"t","o","p"," ","3"," ","p","r","o","d","u","c","t","s">>

\* best customer
q_best_customer ==
  <<"b","e","s","t"," ","c","u","s","t","o","m","e","r">>

\* repeat customer
q_repeat_customer ==
  <<"r","e","p","e","a","t"," ","c","u","s","t","o","m","e","r">>

\* product vendor sales
q_product_sales ==
  <<"p","r","o","d","u","c","t"," ","v","e","n","d","o","r"," ","s","a","l","e","s">>

\* reorder reorder demand
q_reorder ==
  <<"r","e","o","r","d","e","r"," ","r","e","o","r","d","e","r"," ","d","e","m","a","n","d">>

\* forecast
q_forecast ==
  <<"f","o","r","e","c","a","s","t">>

\* seasonal sales forecast
q_seasonal_sales ==
  <<"s","e","a","s","o","n","a","l"," ","s","a","l","e","s"," ","f","o","r","e","c","a","s","t">>

\* need more customer
q_need_more ==
  <<"n","e","e","d"," ","m","o","r","e"," ","c","u","s","t","o","m","e","r">>

\* hello
q_hello ==
  <<"h","e","l","l","o">>

\* Inventory of item X
q_inventory_item ==
  <<"I","n","v","e","n","t","o","r","y"," ","o","f"," ","i","t","e","m"," ","X">>

\* customer history
q_customer_history ==
  <<"c","u","s","t","o","m","e","r"," ","h","i","s","t","o","r","y">>

Questions ==
  {q_low_stock,
   q_top_products,
   q_best_customer,
   q_repeat_customer,
   q_product_sales,
   q_reorder,
   q_forecast,
   q_seasonal_sales,
   q_need_more,
   q_hello,
   q_inventory_item,
   q_customer_history}

\* what the remote store may answer to the query of the request
StoreReplies ==
  IF pc = "fetch" THEN Replies(RootOf(shopifyql_query.query.template)) ELSE {}

Fetch == \E reply \in StoreReplies : ExecuteQuery(reply)

Init == \E q \in Questions : Start(q)

Next ==
  \/ Classify
  \/ GenerateQueryStep
  \/ \E site_ok \in BOOLEAN : ConstructClient(site_ok)
  \/ Fetch
  \/ ProcessData
  \/ \E outcome \in GenerationOutcomes : Respond(outcome)
  \/ HandleException

Spec == Init /\ [][Next]_vars

(***************************************************************************)
(* The access-error path                                                   *)
(***************************************************************************)
AccessErrorText ==
  "Sorry, I encountered an error while accessing your Shopify store data."

GenericErrorText ==
  "Sorry, I encountered an error while processing your question."

\* the fetch returned a response whose `errors` entry is a non-empty list
ErrorsReturned ==
  /\ raw_data.t = "dict"
  /\ "errors" \in DOMAIN raw_data.v
  /\ raw_data.v["errors"].t = "list"
  /\ Len(raw_data.v["errors"].v) > 0

Invoked(stage) == \E k \in 1..Len(calls) : calls[k] = stage

\* C1: whenever the fetch returns a response with non-empty `errors`, the
\* request ends with the fixed access-error answer, confidence "low",
\* data_summary None and query_used the generated query, and neither the
\* result processor nor the response synthesizer is invoked.
C1_ErrorsShortCircuit ==
  ErrorsReturned =>
    /\ pc = "done"
    /\ result.answer = Answer(AccessErrorText, <<>>)
    /\ result.confidence = "low"
    /\ result.data_summary = PyNone
    /\ result.query_used = GenerateQuery(intent_classification).value.query
    /\ result.query_used # PyNone
    /\ ~Invoked("process") /\ ~Invoked("generate") /\ ~Invoked("fallback")

\* the store answered {errors: ["rate limited"]} and the request returned
C1_Witness ==
  /\ ErrorsReturned
  /\ raw_data.v["errors"] = RateLimited
  /\ pc = "done"
  /\ calls = <<"classify", "generate_query", "fetch">>

(***************************************************************************)
(* The handler at the boundary of process_question                         *)
(***************************************************************************)
\* C2: every request ends with exactly one result, an answer text with a
\* confidence among "high", "medium", "low"; no stage's exception leaves the
\* request without one, and a request in which a stage raised returns the
\* generic answer with confidence "low" and query_used and data_summary None.
C2_AlwaysOneResult ==
  /\ pc \in {"classify", "generate_query", "client", "fetch", "process",
             "respond", "except", "done"}
  /\ pc # "done" => result = PyNone
  /\ pc = "except" <=> (raised # "none" /\ result = PyNone)
  /\ pc = "done" =>
       /\ DOMAIN result = {"answer", "confidence", "query_used", "data_summary"}
       /\ result.answer.text \in STRING
       /\ result.confidence \in {"high", "medium", "low"}
       /\ raised # "none" =>
            /\ result.answer = Answer(GenericErrorText, <<>>)
            /\ result.confidence = "low"
            /\ result.query_used = PyNone
            /\ result.data_summary = PyNone

\* a request whose result processing raised has returned
C2_Witness == pc = "done" /\ raised = "process"

\* C3: when the fetch succeeds and the text-generation call fails, the
\* request returns the fallback's text with the label of the classification
\* confidence, the generated query and the processed result, never the
\* generic processing-error answer.
C3_GenerationFailureFallsBack ==
  generation = "failed" =>
    /\ raised = "none"
    /\ pc = "done"
    /\ result.answer.text # GenericErrorText
    /\ result.answer = GenerateFallbackResponse(question, processed_result).value
    /\ result.confidence = DetermineConfidence(intent_classification.confidence)
    /\ result.query_used = shopifyql_query.query
    /\ result.data_summary = processed_result

\* C4: the fallback synthesizer raises no exception, whatever processed
\* result the result processor hands it.
C4_FallbackNeverRaises == raised # "fallback"

(***************************************************************************)
(* The result processor                                                    *)
(***************************************************************************)
\* the raw response has no payload: no `data`, or a null or empty one
NoPayload ==
  \/ "data" \notin DOMAIN raw_data.v
  \/ raw_data.v["data"].t = "None"
  \/ raw_data.v["data"] = PyDict(EmptyDict)

\* C6: the result processor never raises, whatever is missing or empty in
\* the raw response, and returns the sentinel message when the response has
\* no payload.
C6_ProcessorNeverRaises ==
  /\ raised # "process"
  /\ Invoked("process") /\ NoPayload => processed_result = NoDataMessage

\* the processed result holds the records of a collection
HasRecords ==
  /\ processed_result # PyNone
  /\ processed_result # NoDataMessage

\* the edges of the intent's collection in the raw payload (none when the
\* collection or its edges are absent)
RawEdges ==
  LET data == raw_data.v["data"]
      collection == RootOf(intent_classification.intent_type)
  IN  IF collection \in DOMAIN data.v /\ "edges" \in DOMAIN data.v[collection].v
        THEN data.v[collection].v["edges"].v
        ELSE <<>>

\* the key of the processed result and the fields that tell its records
\* apart: <<key of the result, field of the record, field of the raw node>>
RecordKeys ==
  [inventory_analysis |-> <<"inventory_items", "sku", "sku">>,
   sales_analysis |-> <<"products", "title", "title">>,
   customer_analysis |-> <<"customers", "email", "email">>,
   product_analysis |-> <<"products", "title", "title">>,
   reorder_suggestion |-> <<"reorder_suggestions", "title", "title">>,
   trend_analysis |-> <<"orders", "name", "name">>]

RawField(edge, field) ==
  IF "node" \in DOMAIN edge.v /\ field \in DOMAIN edge.v["node"].v
    THEN edge.v["node"].v[field]
    ELSE PyNone

Smaller(a, b) == IF a < b THEN a ELSE b

\* the variants of the i-th record are the first five of the i-th raw node
FirstFiveVariants(record, edge) ==
  LET raw == IF "node" \in DOMAIN edge.v /\ "variants" \in DOMAIN edge.v["node"].v
               THEN edge.v["node"].v["variants"].v["edges"].v
               ELSE <<>>
  IN  /\ Len(record.variants.v) = Smaller(5, Len(raw))
      /\ \A j \in 1..Len(record.variants.v) :
           record.variants.v[j].sku = RawField(raw[j], "sku")

\* C7: the record list of a processed result holds the first min(10, n)
\* records of the intent's collection, in their order; for
\* reorder_suggestion each record holds the first min(5, k) variants.
C7_FirstTenRecords ==
  HasRecords =>
    LET keys == RecordKeys[intent_classification.intent_type]
        records == processed_result[keys[1]]
    IN  /\ DOMAIN processed_result = {keys[1]}
        /\ Len(records) = Smaller(10, Len(RawEdges))
        /\ \A i \in 1..Len(records) :
             /\ records[i][keys[2]] = RawField(RawEdges[i], keys[3])
             /\ intent_classification.intent_type = "reorder_suggestion" =>
                  FirstFiveVariants(records[i], RawEdges[i])

\* 25 inventory records were returned and 10 are kept
C7_Witness ==
  /\ HasRecords
  /\ intent_classification.intent_type = "inventory_analysis"
  /\ Len(RawEdges) = 25
  /\ Len(processed_result["inventory_items"]) = 10

(***************************************************************************)
(* The low-stock scenario: the question "What's low on stock?" against a   *)
(* store that returns 12 inventory items, 4 of them with fewer than 10     *)
(* units available, at any 4 places of the list.                           *)
(***************************************************************************)
\* a low item holds 0..9 units, the others 10..12
StockEdges(low) ==
  [i \in 1..12 |->
     Edge([GoodNode("inventoryItems", i, 0) EXCEPT
             !["totalAvailable"] =
               IF i \in low THEN PyInt(i % 10) ELSE PyInt(10 + (i % 3))])]

StockReplies ==
  {[transport |-> "ok",
    body |-> PyDict([data |->
               PyDict([inventoryItems |-> Connection(StockEdges(low))])])] :
     low \in {S \in SUBSET (1..12) : Cardinality(S) = 4}}

FetchStock ==
  \E reply \in (IF pc = "fetch" THEN StockReplies ELSE {}) : ExecuteQuery(reply)

InitStock == Start(q_low_stock)

NextStock ==
  \/ Classify
  \/ GenerateQueryStep
  \/ \E site_ok \in BOOLEAN : ConstructClient(site_ok)
  \/ FetchStock
  \/ ProcessData
  \/ \E outcome \in GenerationOutcomes : Respond(outcome)
  \/ HandleException

SpecStock == InitStock /\ [][NextStock]_vars

\* the places of the returned list whose item has fewer than 10 units
LowPositions ==
  {i \in 1..Len(RawEdges) : RawEdges[i].v["node"].v["totalAvailable"].v < 10}

\* the n smallest elements of S, ascending
RECURSIVE Smallest(_, _)
Smallest(S, n) ==
  IF n = 0 \/ S = {} THEN <<>>
  ELSE <<Min(S)>> \o Smallest(S \ {Min(S)}, n - 1)

\* the answer of the low-stock sentence that counts `count` items and names
\* the items at `positions`
LowStockAnswer(count, positions) ==
  Answer("Based on your data, you have {} items with low stock (less than 10 units). Consider reordering these soon: {}.",
         <<PyInt(count),
           PyList([k \in 1..Len(positions) |->
                     RawEdges[positions[k]].v["node"].v["displayName"]])>>)

\* the request returned an answer of the fallback synthesizer
FallbackAnswered == pc = "done" /\ generation = "failed" /\ raised = "none"

\* C5, as stated: wherever the 4 low items stand among the 12, the fallback
\* answer states the count 4 and names the first 3 of them.
C5_AnyArrangement ==
  FallbackAnswered =>
    result.answer = LowStockAnswer(4, Smallest(LowPositions, 3))

\* C5, amended: the fallback answer counts and names the low items among
\* the first 10 items of the list; it states 4 and names the first 3 of the
\* 4 when all 4 stand among the first 10.
C5_WithinFirstTen ==
  FallbackAnswered =>
    LET kept == LowPositions \cap 1..10
    IN  /\ result.answer = LowStockAnswer(Cardinality(kept), Smallest(kept, 3))
        /\ LowPositions \subseteq 1..10 =>
             result.answer = LowStockAnswer(4, Smallest(LowPositions, 3))

\* the 4 low items stand among the first 10, the last of them at place 10,
\* and the answer states 4
C5_Witness ==
  /\ FallbackAnswered
  /\ LowPositions \subseteq 1..10
  /\ 10 \in LowPositions
  /\ result.answer.args[1] = PyInt(4)
  /\ Len(result.answer.args[2].v) = 3

(***************************************************************************)
(* The classifier on its own: classify_intent applied to the questions of  *)
(* up to MaxWords words of a vocabulary, to questions with a time window,  *)
(* and to the questions of the requests above.                             *)
(***************************************************************************)
Vocabulary ==
  {<<"s","t","o","c","k">>,
   <<"r","e","s","t","o","c","k","i","n","g">>,
   <<"r","e","o","r","d","e","r">>,
   <<"t","r","e","n","d">>,
   <<"c","u","s","t","o","m","e","r">>,
   <<"l","o","w">>}

RECURSIVE JoinWords(_)
JoinWords(ws) ==
  IF Len(ws) = 1 THEN ws[1] ELSE ws[1] \o <<" ">> \o JoinWords(Tail(ws))

Sentences ==
  {JoinWords(ws) : ws \in UNION {[1..n -> Vocabulary] : n \in 1..MaxWords}}

Qualifiers ==
  {<<>>, <<"l","a","s","t"," ">>, <<"n","e","x","t"," ">>, <<"p","a","s","t"," ">>, <<"p","r","e","v","i","o","u","s"," ">>}

Numbers == {<<"2">>, <<"1","4">>}

Units == {TimeUnits[k] : k \in 1..Len(TimeUnits)}

Suffixes == {<<>>, <<" ","a","g","o">>}

\* <qualifier> <n> <unit>, possibly followed by another word
TimeQuestion(qualifier, n, unit, suffix) ==
  qualifier \o n \o <<" ">> \o unit \o suffix

TimeQuestions ==
  {TimeQuestion(q, n, u, x) :
     q \in Qualifiers, n \in Numbers, u \in Units, x \in Suffixes}

\* my restocking plan
q_restocking_plan ==
  <<"m","y"," ","r","e","s","t","o","c","k","i","n","g"," ","p","l","a","n">>

\* need to stock up
q_stock_up ==
  <<"n","e","e","d"," ","t","o"," ","s","t","o","c","k"," ","u","p">>

\* Low Stock, out of stock
q_out_of_stock ==
  <<"L","o","w"," ","S","t","o","c","k",","," ","o","u","t"," ","o","f"," ","s","t","o","c","k">>

\* the phrases of the questions that name a product: product Blue,
\* item Red, "Big Hat", product, show
Phrases ==
  {<<"p","r","o","d","u","c","t"," ","B","l","u","e">>,
   <<"i","t","e","m"," ","R","e","d">>,
   <<"\"","B","i","g"," ","H","a","t","\"">>,
   <<"p","r","o","d","u","c","t">>,
   <<"s","h","o","w">>}

ProductQuestions ==
  {JoinWords(ws) : ws \in UNION {[1..n -> Phrases] : n \in 1..MaxWords}}

ClassifierQuestions ==
  Sentences \cup TimeQuestions \cup ProductQuestions \cup Questions
    \cup {q_restocking_plan, q_stock_up, q_out_of_stock}

InitClassify == \E q \in ClassifierQuestions : Start(q)

NextClassify == Classify

SpecClassify == InitClassify /\ [][NextClassify]_vars

Classified == intent_classification # PyNone

Position(intent_type) ==
  CHOOSE k \in 1..Len(IntentOrder) : IntentOrder[k] = intent_type

TotalScore ==
  scores["inventory_analysis"] + scores["sales_analysis"]
    + scores["customer_analysis"] + scores["product_analysis"]
    + scores["reorder_suggestion"] + scores["trend_analysis"]

\* C8: the selected intent is the first in declaration order among those
\* with the maximal score; the confidence is its score over the sum of the
\* six scores, 0.0 when the sum is 0, so it lies in [0, 1]; a question that
\* matches no keyword gives inventory_analysis with confidence 0.0.
C8_FirstMaximalIntent ==
  Classified =>
    LET selected == intent_classification.intent_type
        confidence == intent_classification.confidence
    IN  /\ \A it \in IntentType : scores[it] <= scores[selected]
        /\ \A it \in IntentType :
             Position(it) < Position(selected) => scores[it] < scores[selected]
        /\ confidence.den > 0
        /\ 0 <= confidence.num /\ confidence.num <= confidence.den
        /\ IF TotalScore = 0
             THEN confidence.num = 0 /\ selected = "inventory_analysis"
             ELSE confidence.num * TotalScore = scores[selected] * confidence.den

\* two intents share the maximal score and the earlier one is selected
C8_Witness ==
  /\ Classified
  /\ intent_classification.intent_type = "inventory_analysis"
  /\ scores["inventory_analysis"] > 0
  /\ scores["reorder_suggestion"] = scores["inventory_analysis"]
  /\ intent_classification.confidence = [num |-> 1, den |-> 2]

\* the places where keyword stands in s between two characters that are
\* not word characters (or the ends of s)
WholeWordPlaces(s, keyword) ==
  {i \in 1..(Len(s) - Len(keyword) + 1) :
     /\ SubSeq(s, i, i + Len(keyword) - 1) = keyword
     /\ i = 1 \/ s[i - 1] \notin WordChars
     /\ i + Len(keyword) > Len(s) \/ s[i + Len(keyword)] \notin WordChars}

RECURSIVE WholeWordCount(_, _, _)
WholeWordCount(s, keywords, k) ==
  IF k > Len(keywords) THEN 0
  ELSE Cardinality(WholeWordPlaces(s, keywords[k]))
         + WholeWordCount(s, keywords, k + 1)

\* C9: an intent's score counts, for each of its triggers, the occurrences
\* in the lower-cased question that are whole words, and none inside a
\* longer word: "my restocking plan" scores 0 for inventory_analysis and
\* "need to stock up" scores 1.
C9_WholeWordScores ==
  Classified =>
    /\ \A it \in IntentType :
         scores[it] = WholeWordCount(lower(question), intent_keywords[it], 1)
    /\ question = q_restocking_plan => scores["inventory_analysis"] = 0
    /\ question = q_stock_up => scores["inventory_analysis"] = 1

\* "restocking stock": the word stock counts once, restocking not at all
C9_Witness ==
  /\ Classified
  /\ question = JoinWords(<<
       <<"r","e","s","t","o","c","k","i","n","g">>,
       <<"s","t","o","c","k">>>>)
  /\ scores["inventory_analysis"] = 1

\* C10: a question with a time window <qualifier?> <n> <unit> gets
\* time_period "<n> <unit>", the unit as written in the question.
C10_TimePeriodAsWritten ==
  Classified =>
    \A q \in Qualifiers, n \in Numbers, u \in Units, x \in Suffixes :
      question = TimeQuestion(q, n, u, x) =>
        /\ "time_period" \in DOMAIN intent_classification.entities
        /\ intent_classification.entities["time_period"] = n \o <<" ">> \o u

\* the pattern p of product_patterns matches somewhere in the question
MatchesSomewhere(p) ==
  \E i \in 1..Len(question) : ProductPatternAt(question, p, i).matched

\* the stripped group of p's leftmost match in the question
LeftmostCapture(p) ==
  strip(ProductPatternAt(question, p,
          Min({i \in 1..Len(question) :
                 ProductPatternAt(question, p, i).matched})).group)

ProductName == intent_classification.entities["product_name"]

\* "Big Hat" product Blue
q_quoted_then_product ==
  <<"\"","B","i","g"," ","H","a","t","\""," ","p","r","o","d","u","c","t"," ","B","l","u","e">>

\* product Blue "Big Hat"
q_product_then_quoted ==
  <<"p","r","o","d","u","c","t"," ","B","l","u","e"," ","\"","B","i","g"," ","H","a","t","\"">>

\* product "Big Hat"
q_product_quoted ==
  <<"p","r","o","d","u","c","t"," ","\"","B","i","g"," ","H","a","t","\"">>

\* item Red product Blue
q_item_then_product ==
  <<"i","t","e","m"," ","R","e","d"," ","p","r","o","d","u","c","t"," ","B","l","u","e">>

\* C11: product_name is the capture of the first of the patterns
\* product <text>, item <text>, "<text>", in that order, that matches
\* anywhere in the question, whichever of them matches earliest in the
\* text; the key is absent when none matches.
C11_FirstDeclaredPatternWins ==
  Classified =>
    /\ IF MatchesSomewhere(<<"p","r","o","d","u","c","t">>)
         THEN ProductName = LeftmostCapture(<<"p","r","o","d","u","c","t">>)
       ELSE IF MatchesSomewhere(<<"i","t","e","m">>)
         THEN ProductName = LeftmostCapture(<<"i","t","e","m">>)
       ELSE IF MatchesSomewhere(<<"\"">>)
         THEN ProductName = LeftmostCapture(<<"\"">>)
       ELSE "product_name" \notin DOMAIN intent_classification.entities
    /\ question = q_quoted_then_product => ProductName = <<"B","l","u","e">>
    /\ question = q_product_then_quoted => ProductName = <<"B","l","u","e">>
    /\ question = q_item_then_product => ProductName = <<"B","l","u","e">>
    /\ question = q_product_quoted =>
         ProductName = <<"B","i","g"," ","H","a","t">>

\* the quoted text stands first in the question and product <text> wins
C11_Witness ==
  /\ Classified
  /\ question = q_quoted_then_product
  /\ ProductName = <<"B","l","u","e">>

(***************************************************************************)
(* The query generator: generate_query applied to the classifications of   *)
(* the questions above, of questions that ask for the n best, and of a     *)
(* question whose time window has one digit more than int() converts.      *)
(***************************************************************************)
Counts == {<<"1">>, <<"3">>, <<"5">>, <<"0","0","7">>, <<"2","5">>}

MetricQuestions ==
  {w \o <<" ">> \o n \o x :
     w \in {<<"t","o","p">>, <<"b","e","s","t">>},
     n \in Counts,
     x \in {<<" ","s","a","l","e","s">>, <<" ","p","r","o","d","u","c","t","s">>, <<" ","s","t","o","c","k"," ","s","t","o","c","k">>}}
  \cup {n \o <<" ","b","e","s","t"," ","s","a","l","e","s">> : n \in Counts}
  \cup {<<"s","a","l","e","s">>, <<"b","e","s","t"," ","s","a","l","e","s">>, <<"s","a","l","e","s"," ","r","e","v","e","n","u","e"," ","g","r","o","w","t","h">>}

\* stock last 11...1 days, with int_max_str_digits + 1 digits
q_long_window ==
  <<"s","t","o","c","k"," ","l","a","s","t"," ">>
    \o [i \in 1..(int_max_str_digits + 1) |-> "1"]
    \o <<" ","d","a","y","s">>

\* what classify_intent leaves for q_long_window: the word stock scores
\* once, and the first time pattern captures the digits and the unit day
LongWindowClassified ==
  /\ question = q_long_window
  /\ pc = "generate_query"
  /\ scores = [it \in IntentType |->
                 IF it = "inventory_analysis" THEN 1 ELSE 0]
  /\ intent_classification =
       [intent_type |-> "inventory_analysis",
        confidence |-> [num |-> 1, den |-> 1],
        entities |-> Put(EmptyDict, "time_period",
                         [i \in 1..(int_max_str_digits + 1) |-> "1"]
                           \o <<" ","d","a","y">>)]
  /\ shopifyql_query = PyNone
  /\ raw_data = PyNone
  /\ processed_result = PyNone
  /\ generation = "none"
  /\ calls = <<"classify">>
  /\ raised = "none"
  /\ result = PyNone
  /\ \E store \in Stores : Called(store, TokenOf(store))
  /\ Alone

InitGenerate ==
  \/ \E q \in ClassifierQuestions \cup MetricQuestions : Start(q)
  \/ LongWindowClassified

NextGenerate == Classify \/ GenerateQueryStep \/ HandleException

SpecGenerate == InitGenerate /\ [][NextGenerate]_vars

\* generate_query returned a query for a sales_analysis classification
SalesQueryGenerated ==
  /\ shopifyql_query # PyNone
  /\ intent_classification.intent_type = "sales_analysis"

\* the query of a sales_analysis classification asks for the first top_n
\* products, top_n being the entity or 5, and records top_n
SalesQueryRequestsTopN ==
  SalesQueryGenerated =>
    LET top_n == IF "top_n" \in DOMAIN intent_classification.entities
                   THEN intent_classification.entities["top_n"]
                   ELSE <<"5">>
    IN  /\ shopifyql_query.query.template = "sales_analysis"
        /\ shopifyql_query.query.first = top_n
        /\ shopifyql_query.parameters["top_n"] = top_n

\* C12: generate_query never fails, and the query of a sales_analysis
\* classification asks for exactly top_n products (the entity, or 5 when
\* there is none) and records that top_n in its parameters.
C12_GenerateQueryNeverFails ==
  /\ raised # "generate_query"
  /\ SalesQueryRequestsTopN


(***************************************************************************)
(* The confidence label: _determine_confidence applied on its own to the   *)
(* confidences num / den with den up to MaxTotal, next to the requests of  *)
(* the pipeline, whose step 5 applies it to the classification's           *)
(* confidence.                                                             *)
(***************************************************************************)
MaxTotal == 100

Confidences ==
  {[num |-> n, den |-> d] : n \in 0..MaxTotal, d \in 1..MaxTotal}

\* the state before self._determine_confidence(c) is evaluated
DetermineConfidenceCalled(c) ==
  /\ question = <<>>
  /\ pc = "determine_confidence"
  /\ scores = [it \in IntentType |-> 0]
  /\ intent_classification =
       [intent_type |-> "inventory_analysis", confidence |-> c,
        entities |-> EmptyDict]
  /\ shopifyql_query = PyNone
  /\ raw_data = PyNone
  /\ processed_result = PyNone
  /\ generation = "none"
  /\ calls = <<>>
  /\ raised = "none"
  /\ result = PyNone
  /\ \E store \in Stores : Called(store, TokenOf(store))
  /\ Alone

DetermineConfidenceStep ==
  /\ pc = "determine_confidence"
  /\ result' = DetermineConfidence(intent_classification.confidence)
  /\ pc' = "labelled"
  /\ UNCHANGED <<question, scores, intent_classification, shopifyql_query,
                 raw_data, processed_result, generation, calls, raised>>
  /\ UNCHANGED outside

InitLabel ==
  \/ \E c \in Confidences : c.num <= c.den /\ DetermineConfidenceCalled(c)
  \/ Init

NextLabel == DetermineConfidenceStep \/ Next

SpecLabel == InitLabel /\ [][NextLabel]_vars

\* the label of num / den by the thresholds 4/5 and 1/2
LabelOf(c) ==
  CASE 5 * c.num > 4 * c.den -> "high"
    [] 5 * c.num <= 4 * c.den /\ 2 * c.num > c.den -> "medium"
    [] 2 * c.num <= c.den -> "low"

\* the request went through all five steps and returned their result
Succeeded == pc = "done" /\ raised = "none" /\ generation # "none"

\* C13: the label is high iff the confidence exceeds 0.8, medium iff it
\* exceeds 0.5 and not 0.8, low otherwise (0.81 high, 0.8 and 0.51 medium,
\* 0.5 low), and a successful request returns the label of its
\* classification's confidence.
C13_ConfidenceLabel ==
  /\ pc = "labelled" =>
       LET c == intent_classification.confidence
       IN  /\ result = LabelOf(c)
           /\ c = [num |-> 81, den |-> 100] => result = "high"
           /\ c = [num |-> 80, den |-> 100] => result = "medium"
           /\ c = [num |-> 51, den |-> 100] => result = "medium"
           /\ c = [num |-> 50, den |-> 100] => result = "low"
  /\ Succeeded =>
       result.confidence = LabelOf(intent_classification.confidence)

\* the confidence 0.8 is labelled medium
C13_Witness ==
  /\ pc = "labelled"
  /\ intent_classification.confidence = [num |-> 80, den |-> 100]
  /\ result = "medium"

\* the stages in the order process_question runs them, the fallback last
StageOrder ==
  <<"classify", "generate_query", "fetch", "process", "generate", "fallback">>

Times(stage) == Cardinality({k \in 1..Len(calls) : calls[k] = stage})

\* C15: the stages invoked so far are the first stages of the fixed order
\* classify, generate query, fetch, process, generate, each once; the
\* fetch and the text generation are invoked at most once; the fallback is
\* invoked only after that request's text generation has failed.
C15_StagesInOrder ==
  /\ Len(calls) <= Len(StageOrder)
  /\ calls = SubSeq(StageOrder, 1, Len(calls))
  /\ Times("fetch") <= 1
  /\ Times("generate") <= 1
  /\ Invoked("fallback") =>
       /\ generation = "failed"
       /\ \E k \in 1..(Len(calls) - 1) :
            calls[k] = "generate" /\ calls[k + 1] = "fallback"

\* a request that ran all five stages and then the fallback
C15_Witness ==
  /\ pc = "done"
  /\ calls = StageOrder
  /\ generation = "failed"

(***************************************************************************)
(* The endpoint POST /api/v1/process-question of main.py: the body of its  *)
(* try block around the pipeline, and its except Exception handler.        *)
(***************************************************************************)
\* shop_access_token: Optional[str] = None
Tokens == {PyNone, PyStr("")} \cup {TokenOf(store) : store \in Stores}

\* str(e) of the HTTPException(400) the endpoint raised: starlette's
\* __str__ gives "status: detail", releases without it the empty text of
\* an exception constructed with keyword arguments only
HTTPExceptionTexts == {"400: Shop access token is required", ""}

HTTPError(status_code, detail) ==
  [status_code |-> status_code, detail |-> detail]

\* QuestionResponse(**result), sent with status 200
QuestionResponse(body) == [status_code |-> 200, body |-> body]

\* if not request.shop_access_token: raise HTTPException(400, ...), inside
\* the try block; otherwise await ai_agent.process_question(...)
ValidateToken ==
  /\ pc = "endpoint"
  /\ IF Truthy(access_token)
       THEN pc' = "classify" /\ UNCHANGED raised
       ELSE pc' = "endpoint_except" /\ raised' = "endpoint"
  /\ UNCHANGED <<question, scores, intent_classification, shopifyql_query,
                 raw_data, processed_result, generation, calls, result>>
  /\ UNCHANGED outside

\* except Exception as e: raise HTTPException(500, detail=str(e)); the
\* HTTPException raised in the try block is an Exception
ReraiseAsServerError(text) ==
  /\ pc = "endpoint_except"
  /\ response' = HTTPError(500, text)
  /\ pc' = "responded"
  /\ UNCHANGED <<question, scores, intent_classification, shopifyql_query,
                 raw_data, processed_result, generation, calls, raised,
                 result>>
  /\ UNCHANGED <<store_id, access_token, shopify_client, fetched, site, other>>

\* return QuestionResponse(**result)
ReturnResponse ==
  /\ pc = "done"
  /\ response' = QuestionResponse(result)
  /\ pc' = "responded"
  /\ UNCHANGED <<question, scores, intent_classification, shopifyql_query,
                 raw_data, processed_result, generation, calls, raised,
                 result>>
  /\ UNCHANGED <<store_id, access_token, shopify_client, fetched, site, other>>

InitEndpoint ==
  \E q \in {q_low_stock, q_top_products}, store \in Stores, token \in Tokens :
    Locals(q, "endpoint") /\ Called(store, token) /\ Alone

NextEndpoint ==
  \/ ValidateToken
  \/ \E text \in HTTPExceptionTexts : ReraiseAsServerError(text)
  \/ ReturnResponse
  \/ Next

SpecEndpoint == InitEndpoint /\ [][NextEndpoint]_vars

\* the request came without a token, or with an empty one, and has been
\* answered
AnsweredWithoutToken == pc = "responded" /\ ~Truthy(access_token)

\* C16: a request whose shop_access_token is missing or empty is answered
\* with the HTTP 400 error "Shop access token is required", and the
\* pipeline is not invoked for it.
C16_MissingTokenRejected ==
  AnsweredWithoutToken =>
    /\ response = HTTPError(400, "Shop access token is required")
    /\ calls = <<>>

\* the pipeline is not invoked for a request without a token
PipelineNotInvokedWithoutToken ==
  ~Truthy(access_token) =>
    /\ calls = <<>>
    /\ pc \in {"endpoint", "endpoint_except", "responded"}
    /\ result = PyNone

(***************************************************************************)
(* Two requests in one process, for different stores, their steps          *)
(* interleaved in every way.  The variables of the request hold the        *)
(* request that is running, `other` the frame of the one that is not;      *)
(* only `site` belongs to the process.                                     *)
(***************************************************************************)
\* the records a store holds in a collection: store1 the items 1 and 2,
\* store2 the items 3, 4 and 5
StoreEdges(store, collection) ==
  IF store = "store1"
    THEN [j \in 1..2 |-> Edge(GoodNode(collection, j, 1))]
    ELSE [j \in 1..3 |-> Edge(GoodNode(collection, 2 + j, 1))]

\* what comes back for a fetch sent to client.store_domain with
\* client.access_token
Answers(client, collection) ==
  IF client.access_token = TokenOf(client.store_domain)
    THEN {[transport |-> "ok",
           body |-> PyDict([data |->
                      PyDict(collection :>
                        Connection(StoreEdges(client.store_domain,
                                              collection)))])],
          [transport |-> "ok", body |-> PyDict([errors |-> RateLimited])]}
    ELSE {[transport |-> "request error", body |-> PyDict(EmptyDict)]}

FetchOwn ==
  \E reply \in (IF pc = "fetch"
                  THEN Answers(shopify_client,
                               RootOf(shopifyql_query.query.template))
                  ELSE {}) :
    ExecuteQuery(reply)

\* the frame of the running request
Frame ==
  [question |-> question, pc |-> pc, scores |-> scores,
   intent_classification |-> intent_classification,
   shopifyql_query |-> shopifyql_query, raw_data |-> raw_data,
   processed_result |-> processed_result, generation |-> generation,
   calls |-> calls, raised |-> raised, result |-> result,
   store_id |-> store_id, access_token |-> access_token,
   shopify_client |-> shopify_client, fetched |-> fetched,
   response |-> response]

\* the frame of a request that has just been called
Entered(q, store) ==
  [question |-> q, pc |-> "classify", scores |-> [it \in IntentType |-> 0],
   intent_classification |-> PyNone, shopifyql_query |-> PyNone,
   raw_data |-> PyNone, processed_result |-> PyNone, generation |-> "none",
   calls |-> <<>>, raised |-> "none", result |-> PyNone,
   store_id |-> store, access_token |-> TokenOf(store),
   shopify_client |-> PyNone, fetched |-> PyNone, response |-> PyNone]

\* the running request is suspended and the other one resumed
Switch ==
  /\ other # PyNone
  /\ other' = Frame
  /\ question' = other.question
  /\ pc' = other.pc
  /\ scores' = other.scores
  /\ intent_classification' = other.intent_classification
  /\ shopifyql_query' = other.shopifyql_query
  /\ raw_data' = other.raw_data
  /\ processed_result' = other.processed_result
  /\ generation' = other.generation
  /\ calls' = other.calls
  /\ raised' = other.raised
  /\ result' = other.result
  /\ store_id' = other.store_id
  /\ access_token' = other.access_token
  /\ shopify_client' = other.shopify_client
  /\ fetched' = other.fetched
  /\ response' = other.response
  /\ UNCHANGED site

ConcurrentQuestions == {q_low_stock, q_top_products, q_best_customer}

InitConcurrent ==
  \E q1 \in ConcurrentQuestions, q2 \in ConcurrentQuestions :
    /\ Locals(q1, "classify")
    /\ Called("store1", TokenOf("store1"))
    /\ other = Entered(q2, "store2")
    /\ site = PyNone

NextConcurrent ==
  \/ Classify
  \/ GenerateQueryStep
  \/ \E site_ok \in BOOLEAN : ConstructClient(site_ok)
  \/ FetchOwn
  \/ ProcessData
  \/ \E outcome \in GenerationOutcomes : Respond(outcome)
  \/ HandleException
  \/ Switch

SpecConcurrent == InitConcurrent /\ [][NextConcurrent]_vars

\* process_question(q, store, token) as a function of what its environment
\* does: whether set_site returns, the reply to the fetch, the outcome of
\* the text generation; c and g are the classification of q and its query
RunAlone(q, c, g, site_ok, reply, outcome) ==
  LET raw == ExecuteGraphqlQuery(reply)
      p == ProcessShopifyData(raw, c)
      r == GenerateResponse(q, p.value, outcome)
  IN  IF g.raised \/ ~site_ok THEN GenericErrorResult
      ELSE IF HasErrors(raw) THEN AccessErrorResult(g.value.query)
      ELSE IF p.raised THEN GenericErrorResult
      ELSE IF r.raised THEN GenericErrorResult
      ELSE SuccessResult(r.value, c.confidence, g.value.query, p.value)

\* the results the request of frame f can return when it runs alone
AloneResults(f) ==
  LET client == [store_domain |-> f.store_id, access_token |-> f.access_token]
      c == ClassifyIntent(f.question)
      g == GenerateQuery(c)
  IN  {RunAlone(f.question, c, g, site_ok, reply, outcome) :
         site_ok \in BOOLEAN,
         reply \in Answers(client, RootOf(g.value.query.template)),
         outcome \in GenerationOutcomes}

\* the fetch of the request of frame f went to its own store with its own
\* token, and its result is one it can return alone
Independent(f) ==
  /\ f.fetched # PyNone =>
       f.fetched = [store_domain |-> f.store_id, access_token |-> f.access_token]
  /\ f.pc = "done" => f.result \in AloneResults(f)

RequestsIndependent == Independent(Frame) /\ Independent(other)

\* C14: no step of a request writes process-wide state, and under every
\* interleaving of two requests for different stores each request's fetch
\* uses its own store and token and its result is the one it returns when
\* run alone.
C14_NoSharedMutableState ==
  /\ [][site' = site]_vars
  /\ []RequestsIndependent

====
